---- MODULE Spec2Model ----
(***************************************************************************)
(* Deal lifecycle and deal-code allocation of the CRM backend              *)
(* (backend/tasks: models.py, serializers.py, views.py).                   *)
(*                                                                         *)
(* The datastore is the pair (deals, history).  Every request runs in its  *)
(* own worker; a worker holds the model instance it loaded and the request *)
(* data, and each access to the datastore is one step, so that requests    *)
(* interleave the way autocommit statements do.                            *)
(***************************************************************************)
EXTENDS Integers, Sequences, FiniteSets, TLC

(* ---------------------------- bounds ---------------------------------- *)
NumProcs == 2          \* concurrent request workers
MaxDeals == 2          \* rows created per run of the lifecycle model
MaxEvents == 3         \* requests and clock ticks per run of the lifecycle model
DaysPerYear == 1       \* calendar scale: clock days in one year
FirstYear == 2024      \* year of day 1
MaxAllocDeals == 3     \* rows created per run of the allocation model
PreRows == 999         \* rows already stored in the populated dataset
ExtraRows == 2         \* rows created on top of the populated dataset
MaxCents == 3          \* the small amounts shown, in cents
MaxTasks == 2          \* task rows of a run

Procs == 1..NumProcs
MaxDay == DaysPerYear + 1
None == 0              \* a null date
YearOf(d) == FirstYear + ((d - 1) \div DaysPerYear)

(* ------------------------- Deal constants ----------------------------- *)
STAGE_CHOICES ==
  {"lead", "qualified", "proposal", "negotiation",
   "closed_won", "closed_lost", "on_hold"}

LOST_REASON_CHOICES == {"price", "competitor", "timing", "features", "other"}

\* Deal.clean / DealSerializer.validate: stage -> (min_prob, max_prob)
stage_probability_map ==
  [s \in STAGE_CHOICES |->
     CASE s = "lead"        -> <<0, 30>>
       [] s = "qualified"   -> <<30, 50>>
       [] s = "proposal"    -> <<50, 70>>
       [] s = "negotiation" -> <<70, 90>>
       [] s = "closed_won"  -> <<95, 100>>
       [] s = "closed_lost" -> <<0, 5>>
       [] s = "on_hold"     -> <<0, 100>>]

\* DealViewSet.change_stage: stage -> probability it assigns
stage_default_probability ==
  [s \in STAGE_CHOICES |->
     CASE s = "lead"        -> 20
       [] s = "qualified"   -> 40
       [] s = "proposal"    -> 60
       [] s = "negotiation" -> 80
       [] s = "closed_won"  -> 100
       [] s = "closed_lost" -> 0
       [] s = "on_hold"     -> 50]

(* ----------------- deal codes: strings of code points ----------------- *)
\* "DEAL-" ; '-' is 45, '0'..'9' are 48..57
CodePrefix == <<68, 69, 65, 76, 45>>
IsDigit(c) == c >= 48 /\ c <= 57

RECURSIVE DecimalDigits(_)
\* str(n) for n >= 0
DecimalDigits(n) ==
  IF n < 10 THEN <<48 + n>>
  ELSE Append(DecimalDigits(n \div 10), 48 + (n % 10))

RECURSIVE ZeroPad(_, _)
\* format spec 0<w>d: pad on the left with '0' up to width w, never truncate
ZeroPad(s, w) == IF Len(s) >= w THEN s ELSE ZeroPad(<<48>> \o s, w)

\* f"DEAL-{year}-{new_num:03d}"
FormatCode(year, num) ==
  CodePrefix \o DecimalDigits(year) \o <<45>> \o ZeroPad(DecimalDigits(num), 3)

RECURSIVE LastField(_)
\* code.split('-')[-1]
LastField(s) ==
  IF s = <<>> \/ s[Len(s)] = 45 THEN <<>>
  ELSE Append(LastField(SubSeq(s, 1, Len(s) - 1)), s[Len(s)])

RECURSIVE ParseInt(_)
\* int(s) of a digit string
ParseInt(s) ==
  IF s = <<>> THEN 0
  ELSE 10 * ParseInt(SubSeq(s, 1, Len(s) - 1)) + (s[Len(s)] - 48)

\* deal_code__regex = ^DEAL-\d{4}-\d{3}$
MatchesCodeRegex(s) ==
  /\ Len(s) = 13
  /\ SubSeq(s, 1, 5) = CodePrefix
  /\ \A i \in 6..9 : IsDigit(s[i])
  /\ s[10] = 45
  /\ \A i \in 11..13 : IsDigit(s[i])

RECURSIVE StrLess(_, _)
\* string order of the datastore: a < b
StrLess(a, b) ==
  IF b = <<>> THEN FALSE
  ELSE IF a = <<>> THEN TRUE
  ELSE IF a[1] # b[1] THEN a[1] < b[1]
  ELSE StrLess(Tail(a), Tail(b))

StrMax(a, b) == IF StrLess(a, b) THEN b ELSE a

RECURSIVE MaxCodeIn(_, _, _)
\* aggregate(Max('deal_code')) over rows lo..hi that match the regex;
\* the empty string stands for NULL (every stored code is non-empty)
MaxCodeIn(rows, lo, hi) ==
  IF lo > hi THEN <<>>
  ELSE IF lo = hi
       THEN IF MatchesCodeRegex(rows[lo].deal_code) THEN rows[lo].deal_code
            ELSE <<>>
  ELSE LET mid == (lo + hi) \div 2
       IN StrMax(MaxCodeIn(rows, lo, mid), MaxCodeIn(rows, mid + 1, hi))

\* Deal.save, lines 492-506: the code given to an instance without one
NextDealCode(rows, year) ==
  LET last == MaxCodeIn(rows, 1, Len(rows))
      new_num == IF last # <<>> THEN ParseInt(LastField(last)) + 1 ELSE 1
  IN FormatCode(year, new_num)


(* ------------------------------ state --------------------------------- *)
VARIABLES
  deals,        \* table tasks_deal: sequence of rows, a row's index is its id
  history,      \* table tasks_dealstagehistory, in insertion order
  today,        \* the server clock, as a day number
  workers,      \* per worker: position in its handler, loaded instance, request
  last,         \* the response of the request that completed most recently
  transitions,  \* per deal id: number of change_stage requests answered 200
  begun,        \* number of events (requests accepted, clock ticks) so far
  tasks,        \* table tasks_task: sequence of rows, a row's index is its id
  shown         \* a deal as serialized: amount, probability, weighted_amount

vars ==
  <<deals, history, today, workers, last, transitions, begun, tasks, shown>>

TERMINAL_STAGES == {"closed_won", "closed_lost"}

\* field defaults of a new Deal instance
NewDeal ==
  [deal_code |-> <<>>, stage |-> "lead", probability |-> 0,
   expected_close_date |-> None, actual_close_date |-> None,
   lost_reason |-> "", lost_notes |-> "",
   is_active |-> TRUE, deleted_at |-> None]

\* a worker that serves no request
\* a request body without the key 'probability'
Absent == -1

Idle ==
  [pc |-> "idle", id |-> 0, deal |-> NewDeal, from_stage |-> "",
   stage |-> "", notes |-> "", lost_reason |-> "", lost_notes |-> "",
   probability |-> Absent, h0 |-> 0]

\* a Decimal: coef * 10^-scale
Dec(coef, scale) == [coef |-> coef, scale |-> scale]

\* a property that has not been read
NotComputed == Dec(-1, 0)

\* no deal is being serialized
NothingShown ==
  [amount |-> Dec(0, 2), probability |-> Absent,
   weighted_amount |-> NotComputed]

NoResponse == [op |-> "none", status |-> "none"]

Response(op, status) == [op |-> op, status |-> status]

(* ------------------------- request inputs ----------------------------- *)
StageInputs == STAGE_CHOICES \cup {"bogus", ""}
NotesInputs == {""}

\* the 'probability' of a change_stage request body: absent, or a value of
\* the band of qualified that is not its default
ProbabilityInputs(new_stage) ==
  IF new_stage = "qualified" THEN {Absent, 45} ELSE {Absent}

\* (lost_reason, lost_notes) of a change_stage request
LostInputs == {<<"", "">>, <<"price", "n">>, <<"bogus", "">>}

\* bodies of create requests
CreateData ==
  { [probability |-> 0],
    [expected_close_date |-> 2],
    [stage |-> "qualified", probability |-> 40],
    [stage |-> "qualified"],
    [expected_close_date |-> 2, actual_close_date |-> 1] }

\* bodies of update requests: some of the writable fields
DealData ==
  { [stage |-> "qualified", probability |-> 40],
    [stage |-> "closed_won", probability |-> 100],
    [stage |-> "qualified", probability |-> 100],
    [stage |-> "qualified"],
    [stage |-> "bogus"],
    [probability |-> 0],
    [probability |-> 40],
    [expected_close_date |-> 2],
    [actual_close_date |-> 1],
    [expected_close_date |-> 2, actual_close_date |-> 1],
    [lost_reason |-> "price"],
    [lost_reason |-> "bogus"],
    [is_active |-> FALSE],
    [deal_code |-> FormatCode(FirstYear, 7)] }

\* data.get(f, default)
Get(data, f, default) == IF f \in DOMAIN data THEN data[f] ELSE default

\* setattr(instance, f, v) for every f, v of data
Apply(row, data) ==
  [f \in DOMAIN row |-> IF f \in DOMAIN data THEN data[f] ELSE row[f]]

(* --------------------------- validation ------------------------------- *)
\* a serializer that declares no field read-only
NoReadOnlyFields == {}

\* DealSerializer.Meta.read_only_fields, of the columns kept here
ReadOnlyFields == {"deal_code", "deleted_at"}

\* validated_data: the body without the read-only fields
Validated(data) == [f \in DOMAIN data \ ReadOnlyFields |-> data[f]]

\* a band check that has lost its upper limit
InBandNoMax(stage, probability) ==
  stage \in DOMAIN stage_probability_map =>
    stage_probability_map[stage][1] <= probability

\* a band check that has lost its lower limit
InBandNoMin(stage, probability) ==
  stage \in DOMAIN stage_probability_map =>
    probability <= stage_probability_map[stage][2]

\* min_prob <= probability <= max_prob, for a stage of the map
InBand(stage, probability) ==
  stage \in DOMAIN stage_probability_map =>
    /\ stage_probability_map[stage][1] <= probability
    /\ probability <= stage_probability_map[stage][2]

\* a date check that accepts every pair of dates
DatesAnyOrder(expected, actual) == TRUE

\* actual_close_date may not precede expected_close_date
DatesOrdered(expected, actual) ==
  (actual # None /\ expected # None) => ~(actual < expected)

\* serializer field validation: choices and validators of the model fields
FieldsValid(data) ==
  /\ Get(data, "stage", "lead") \in STAGE_CHOICES
  /\ Get(data, "probability", 0) \in 0..100
  /\ Get(data, "lost_reason", "") \in LOST_REASON_CHOICES \cup {""}

\* DealSerializer.validate(data); instance is the row being updated, or
\* NewDeal on create (whose stage and probability are the same defaults)
SerializerValid(data, instance) ==
  /\ InBand(Get(data, "stage", instance.stage),
            Get(data, "probability", instance.probability))
  /\ DatesOrdered(Get(data, "expected_close_date", None),
                  Get(data, "actual_close_date", None))

\* Model.clean_fields
CleanFields(row) ==
  /\ row.deal_code # <<>>
  /\ row.stage \in STAGE_CHOICES
  /\ row.probability \in 0..100
  /\ row.lost_reason \in LOST_REASON_CHOICES \cup {""}

\* Deal.clean
Clean(row) ==
  /\ InBand(row.stage, row.probability)
  /\ DatesOrdered(row.expected_close_date, row.actual_close_date)

\* Model.validate_unique for deal_code (unique=True); id = 0 when adding
ValidateUnique(row, id, rows) ==
  \A i \in 1..Len(rows) : i # id => rows[i].deal_code # row.deal_code

\* Model.full_clean, called by Deal.save
FullClean(row, id, rows) ==
  CleanFields(row) /\ Clean(row) /\ ValidateUnique(row, id, rows)

\* a table without the constraint
NoUniqueConstraint(row, rows) == TRUE

\* the UNIQUE constraint of column deal_code, enforced on INSERT
UniqueConstraint(row, rows) ==
  \A i \in 1..Len(rows) : rows[i].deal_code # row.deal_code

\* a lookup that also returns soft-deleted rows
FoundInactive(d, rows) == d \in 1..Len(rows)

\* BaseCRUDViewSet.get_queryset + get_object: active rows only
Found(d, rows) == d \in 1..Len(rows) /\ rows[d].is_active

\* the worker returns its response
Finish(p, response) ==
  /\ workers' = [workers EXCEPT ![p] = Idle]
  /\ last' = response

\* Deal.save 491-506: a row without a code is given the next one
Save(row, rows, year) ==
  IF row.deal_code = <<>>
  THEN [row EXCEPT !.deal_code = NextDealCode(rows, year)]
  ELSE row

Creating == {p \in Procs : workers[p].pc \in {"create_clean", "create_insert"}}

(* -------------------- create: POST /deals/ ---------------------------- *)
\* DealSerializer validation, Deal(**validated_data), Deal.save 490-506;
\* cap bounds the rows of the run
CreateBegin(p, data, cap) ==
  /\ workers[p].pc = "idle"
  /\ Len(deals) + Cardinality(Creating) < cap
  /\ IF FieldsValid(data) /\ SerializerValid(data, NewDeal)
     THEN /\ workers' = [workers EXCEPT ![p] =
                 [Idle EXCEPT !.pc = "create_clean",
                    !.deal = Save(Apply(NewDeal, Validated(data)),
                                  deals, YearOf(today))]]
          /\ UNCHANGED last
     ELSE Finish(p, Response("create", "bad_request"))
  /\ UNCHANGED <<deals, history, today, transitions, tasks, shown>>

\* Deal.save 508: full_clean
CreateClean(p) ==
  /\ workers[p].pc = "create_clean"
  /\ IF FullClean(workers[p].deal, 0, deals)
     THEN /\ workers' = [workers EXCEPT ![p].pc = "create_insert"]
          /\ UNCHANGED last
     ELSE Finish(p, Response("create", "validation_error"))
  /\ UNCHANGED <<deals, history, today, transitions, begun, tasks, shown>>

\* Deal.save 509: INSERT
CreateInsert(p) ==
  /\ workers[p].pc = "create_insert"
  /\ IF UniqueConstraint(workers[p].deal, deals)
     THEN /\ deals' = Append(deals, workers[p].deal)
          /\ Finish(p, Response("create", "ok"))
     ELSE /\ UNCHANGED deals
          /\ Finish(p, Response("create", "integrity_error"))
  /\ UNCHANGED <<history, today, transitions, begun, tasks, shown>>

(* -------------- change_stage: POST /deals/<id>/change_stage/ ---------- *)
\* views.py 363-365: lost_reason and lost_notes are read from the request
\* only when the new stage is closed_lost
FromRequest(new_stage, value) ==
  IF new_stage = "closed_lost" THEN value ELSE ""

\* a view that accepts every stage it is sent
AnyStage(new_stage) == TRUE

\* views.py 325-337: the stage is present and is one of STAGE_CHOICES
ValidStage(new_stage) == new_stage # "" /\ new_stage \in STAGE_CHOICES

\* views.py 321-337: get_object, read the request, validate the stage
ChangeStageBegin(p, d, new_stage, notes, lost_reason, lost_notes, probability) ==
  /\ workers[p].pc = "idle"
  /\ IF ~Found(d, deals)
     THEN Finish(p, Response("change_stage", "not_found"))
     ELSE IF ~ValidStage(new_stage)
     THEN Finish(p, Response("change_stage", "bad_request"))
     ELSE /\ workers' = [workers EXCEPT ![p] =
                 [pc |-> "cs_history", id |-> d, deal |-> deals[d],
                  from_stage |-> deals[d].stage,
                  stage |-> new_stage, notes |-> notes,
                  lost_reason |-> FromRequest(new_stage, lost_reason),
                  lost_notes |-> FromRequest(new_stage, lost_notes),
                  probability |-> probability,
                  h0 |-> Len(history)]]
          /\ UNCHANGED last
  /\ UNCHANGED <<deals, history, today, transitions, tasks, shown>>

\* a change of the instance that leaves the probability as it is
StagedDealNoDefault(deal, new_stage, lost_reason, lost_notes, now) ==
  LET d1 == [deal EXCEPT !.stage = new_stage]
      d2 == IF new_stage \in {"closed_won", "closed_lost"}
            THEN [d1 EXCEPT !.actual_close_date = now] ELSE d1
  IN IF new_stage = "closed_lost"
     THEN [d2 EXCEPT !.lost_reason = lost_reason, !.lost_notes = lost_notes]
     ELSE d2

\* views.py 348-365: the changes made to the loaded instance
StagedDeal(deal, new_stage, lost_reason, lost_notes, now) ==
  LET d1 == [deal EXCEPT !.stage = new_stage,
                         !.probability = stage_default_probability[new_stage]]
      d2 == IF new_stage \in {"closed_won", "closed_lost"}
            THEN [d1 EXCEPT !.actual_close_date = now] ELSE d1
  IN IF new_stage = "closed_lost"
     THEN [d2 EXCEPT !.lost_reason = lost_reason, !.lost_notes = lost_notes]
     ELSE d2

\* views.py 339-365: INSERT the history row, then change the instance
ChangeStageHistory(p) ==
  LET w == workers[p] IN
  /\ w.pc = "cs_history"
  /\ history' = Append(history,
       [deal |-> w.id, from_stage |-> w.deal.stage, to_stage |-> w.stage,
        changed_by |-> p, changed_at |-> today, notes |-> w.notes])
  /\ workers' = [workers EXCEPT ![p].pc = "cs_save",
       ![p].deal = StagedDeal(w.deal, w.stage, w.lost_reason, w.lost_notes,
                              today)]
  /\ UNCHANGED <<deals, today, last, transitions, begun, tasks, shown>>

\* views.py 367-370: Deal.save of a stored row (full_clean, then UPDATE of
\* every column) and the response
ChangeStageSave(p) ==
  LET w == workers[p] IN
  /\ w.pc = "cs_save"
  /\ IF FullClean(w.deal, w.id, deals)
     THEN /\ deals' = [deals EXCEPT ![w.id] = w.deal]
          /\ transitions' = [transitions EXCEPT ![w.id] = @ + 1]
          /\ Finish(p, Response("change_stage", "ok"))
     ELSE /\ UNCHANGED <<deals, transitions>>
          /\ Finish(p, Response("change_stage", "validation_error"))
  /\ UNCHANGED <<history, today, begun, tasks, shown>>

(* ---------------- update: PUT/PATCH /deals/<id>/ ---------------------- *)
\* get_object, DealSerializer validation, ModelSerializer.update (setattr
\* of every validated field, instance.save())
Update(p, d, data) ==
  /\ workers[p].pc = "idle"
  /\ IF ~Found(d, deals)
     THEN /\ UNCHANGED deals
          /\ last' = Response("update", "not_found")
     ELSE IF ~(FieldsValid(data) /\ SerializerValid(data, deals[d]))
     THEN /\ UNCHANGED deals
          /\ last' = Response("update", "bad_request")
     ELSE IF FullClean(Apply(deals[d], Validated(data)), d, deals)
     THEN /\ deals' = [deals EXCEPT ![d] = Apply(deals[d], Validated(data))]
          /\ last' = Response("update", "ok")
     ELSE /\ UNCHANGED deals
          /\ last' = Response("update", "validation_error")
  /\ UNCHANGED <<history, today, workers, transitions, tasks, shown>>

(* ---------------- destroy: DELETE /deals/<id>/ ------------------------ *)
\* a deletion that also blanks the code of the row
SoftDeleteBlanking(row, now) ==
  [row EXCEPT !.is_active = FALSE, !.deleted_at = now, !.deal_code = <<>>]

\* SoftDeleteMixin.soft_delete: the two columns named in update_fields
SoftDelete(row, now) == [row EXCEPT !.is_active = FALSE, !.deleted_at = now]

\* BaseCRUDViewSet.destroy -> SoftDeleteMixin.soft_delete: the loaded row is
\* validated by Deal.save and only is_active, deleted_at are written
Destroy(p, d) ==
  /\ workers[p].pc = "idle"
  /\ IF ~Found(d, deals)
     THEN /\ UNCHANGED deals
          /\ last' = Response("destroy", "not_found")
     ELSE IF FullClean(deals[d], d, deals)
     THEN /\ deals' = [deals EXCEPT ![d] = SoftDelete(deals[d], today)]
          /\ last' = Response("destroy", "ok")
     ELSE /\ UNCHANGED deals
          /\ last' = Response("destroy", "validation_error")
  /\ UNCHANGED <<history, today, workers, transitions, tasks, shown>>

(* ------------- bulk delete: POST with model_type 'deal' --------------- *)
\* the bodies of bulk delete requests: the ids
BulkIds == SUBSET (1..MaxDeals)

\* the rows of the queryset (active or not) that are reached by the loop:
\* soft_delete raises on the first row that Deal.save refuses
Reached(ids, rows) ==
  {i \in ids \cap (1..Len(rows)) :
     \A j \in ids \cap (1..i) : FullClean(rows[j], j, rows)}

\* BulkDeleteView.post
BulkDelete(p, ids) ==
  /\ workers[p].pc = "idle"
  /\ IF ids = {}
     THEN /\ UNCHANGED deals
          /\ last' = Response("bulk_delete", "bad_request")
     ELSE /\ deals' = [i \in 1..Len(deals) |->
                         IF i \in Reached(ids, deals)
                         THEN SoftDelete(deals[i], today) ELSE deals[i]]
          /\ last' = IF Reached(ids, deals) = ids \cap (1..Len(deals))
                     THEN Response("bulk_delete", "ok")
                     ELSE Response("bulk_delete", "validation_error")
  /\ UNCHANGED <<history, today, workers, transitions, tasks, shown>>

(* ------------------------------ clock --------------------------------- *)
\* the server clock reaches the next day
Tick ==
  /\ today < MaxDay
  /\ today' = today + 1
  /\ UNCHANGED <<deals, history, workers, last, transitions, tasks, shown>>

(* ------------------ specification: deal lifecycle --------------------- *)
Init ==
  /\ deals = <<>>
  /\ history = <<>>
  /\ today = 1
  /\ workers = [p \in Procs |-> Idle]
  /\ last = NoResponse
  /\ transitions = [d \in 1..MaxDeals |-> 0]
  /\ begun = 0
  /\ tasks = <<>>
  /\ shown = NothingShown

\* an event of the run is counted against MaxEvents
Counted == begun < MaxEvents /\ begun' = begun + 1

\* a request is handed to the first idle worker of the pool
Dispatch(p) == \A q \in 1..(p - 1) : workers[q].pc # "idle"

Create(p, cap) == \E data \in CreateData : CreateBegin(p, data, cap)

ChangeStage(p) ==
  \E d \in 1..MaxDeals, new_stage \in StageInputs,
     notes \in NotesInputs, lost \in LostInputs :
    \E probability \in ProbabilityInputs(new_stage) :
       ChangeStageBegin(p, d, new_stage, notes, lost[1], lost[2], probability)

Next ==
  \/ \E p \in Procs : Counted /\ Dispatch(p) /\ Create(p, MaxDeals)
  \/ \E p \in Procs : CreateClean(p)
  \/ \E p \in Procs : CreateInsert(p)
  \/ \E p \in Procs : Counted /\ Dispatch(p) /\ ChangeStage(p)
  \/ \E p \in Procs : ChangeStageHistory(p)
  \/ \E p \in Procs : ChangeStageSave(p)
  \/ \E p \in Procs, d \in 1..MaxDeals, data \in DealData :
       Counted /\ Dispatch(p) /\ Update(p, d, data)
  \/ \E p \in Procs, d \in 1..MaxDeals :
       Counted /\ Dispatch(p) /\ Destroy(p, d)
  \/ \E p \in Procs, ids \in BulkIds :
       Counted /\ Dispatch(p) /\ BulkDelete(p, ids)
  \/ Counted /\ Tick

Spec == Init /\ [][Next]_vars

(* -------- specification: transitions only (no direct edits) ----------- *)
NextTransitions ==
  \/ \E p \in Procs : Counted /\ Dispatch(p) /\ Create(p, MaxDeals)
  \/ \E p \in Procs : CreateClean(p)
  \/ \E p \in Procs : CreateInsert(p)
  \/ \E p \in Procs : Counted /\ Dispatch(p) /\ ChangeStage(p)
  \/ \E p \in Procs : ChangeStageHistory(p)
  \/ \E p \in Procs : ChangeStageSave(p)
  \/ Counted /\ Tick

SpecTransitions == Init /\ [][NextTransitions]_vars

(* --------------- specification: deal-code allocation ------------------ *)
NextAlloc ==
  \/ \E p \in Procs :
       Dispatch(p) /\ Create(p, MaxAllocDeals) /\ UNCHANGED begun
  \/ \E p \in Procs : CreateClean(p)
  \/ \E p \in Procs : CreateInsert(p)
  \/ Tick /\ UNCHANGED begun

SpecAlloc == Init /\ [][NextAlloc]_vars

(* ------- specification: allocation on a populated dataset ------------- *)
\* PreRows deals created one after the other in FirstYear, never changed
Populated ==
  [i \in 1..PreRows |-> [NewDeal EXCEPT !.deal_code = FormatCode(FirstYear, i)]]

InitPopulated ==
  /\ deals = Populated
  /\ history = <<>>
  /\ today = 1
  /\ workers = [p \in Procs |-> Idle]
  /\ last = NoResponse
  /\ transitions = [d \in 1..MaxDeals |-> 0]
  /\ begun = 0
  /\ tasks = <<>>
  /\ shown = NothingShown

NextPopulated ==
  \/ \E p \in Procs :
       Dispatch(p) /\ Create(p, PreRows + ExtraRows) /\ UNCHANGED begun
  \/ \E p \in Procs : CreateClean(p)
  \/ \E p \in Procs : CreateInsert(p)
  \/ Tick /\ UNCHANGED begun

SpecPopulated == InitPopulated /\ [][NextPopulated]_vars

(* --------------------------- tasks ------------------------------------ *)
STATUS_CHOICES ==
  {"pending", "in_progress", "completed", "cancelled", "deferred"}

\* Task(): the defaults of the columns kept here
NewTask ==
  [status |-> "pending", due_date |-> None, completed_date |-> None,
   parent_task |-> None, is_active |-> TRUE, deleted_at |-> None]

\* bodies of task create and update requests
TaskData ==
  { [status |-> "pending"],
    [status |-> "completed"],
    [status |-> "bogus"],
    [due_date |-> 1],
    [status |-> "pending", completed_date |-> 1],
    [parent_task |-> 1],
    [parent_task |-> 2] }

\* BaseCRUDViewSet.get_queryset + get_object: active rows only
TaskFound(t, rows) == t \in 1..Len(rows) /\ rows[t].is_active

\* TaskSerializer: field validation and validate(data); instance is the row
\* being updated, or NewTask on create
TaskSerializerValid(data, instance, rows, now) ==
  /\ Get(data, "status", "pending") \in STATUS_CHOICES
  /\ Get(data, "parent_task", None) # None
       => TaskFound(data.parent_task, rows)
  /\ ~(/\ Get(data, "due_date", None) # None
        /\ data.due_date < now
        /\ Get(data, "status", instance.status) # "completed")

\* a save that sets completed_date and never clears it
TaskSaveNoClear(row, now) ==
  IF row.status = "completed" /\ row.completed_date = None
  THEN [row EXCEPT !.completed_date = now]
  ELSE row

\* Task.save 717-723: completed_date follows status
TaskSaveDates(row, now) ==
  IF row.status = "completed" /\ row.completed_date = None
  THEN [row EXCEPT !.completed_date = now]
  ELSE IF row.status # "completed" /\ row.completed_date # None
  THEN [row EXCEPT !.completed_date = None]
  ELSE row

\* Task.full_clean: the choices of status and Task.clean (due_date)
TaskFullClean(row, now) ==
  /\ row.status \in STATUS_CHOICES
  /\ ~(/\ row.due_date # None
        /\ row.due_date < now
        /\ row.status # "completed")

\* POST /tasks/
TaskCreate(data) ==
  LET row == TaskSaveDates(Apply(NewTask, data), today) IN
  /\ Len(tasks) < MaxTasks
  /\ IF ~TaskSerializerValid(data, NewTask, tasks, today)
     THEN /\ UNCHANGED tasks
          /\ last' = Response("task_create", "bad_request")
     ELSE IF TaskFullClean(row, today)
     THEN /\ tasks' = Append(tasks, row)
          /\ last' = Response("task_create", "ok")
     ELSE /\ UNCHANGED tasks
          /\ last' = Response("task_create", "validation_error")
  /\ UNCHANGED <<deals, history, today, workers, transitions, shown>>

\* PUT/PATCH /tasks/<id>/
TaskUpdate(t, data) ==
  /\ IF ~TaskFound(t, tasks)
     THEN /\ UNCHANGED tasks
          /\ last' = Response("task_update", "not_found")
     ELSE IF ~TaskSerializerValid(data, tasks[t], tasks, today)
     THEN /\ UNCHANGED tasks
          /\ last' = Response("task_update", "bad_request")
     ELSE LET row == TaskSaveDates(Apply(tasks[t], data), today) IN
          IF TaskFullClean(row, today)
          THEN /\ tasks' = [tasks EXCEPT ![t] = row]
               /\ last' = Response("task_update", "ok")
          ELSE /\ UNCHANGED tasks
               /\ last' = Response("task_update", "validation_error")
  /\ UNCHANGED <<deals, history, today, workers, transitions, shown>>

\* Task.complete_task 764-777, before the save
Completed(row, now) ==
  [row EXCEPT !.status = "completed", !.completed_date = now]

\* POST /tasks/<id>/complete/
TaskComplete(t) ==
  /\ IF ~TaskFound(t, tasks)
     THEN /\ UNCHANGED tasks
          /\ last' = Response("task_complete", "not_found")
     ELSE LET row == TaskSaveDates(Completed(tasks[t], today), today) IN
          IF TaskFullClean(row, today)
          THEN /\ tasks' = [tasks EXCEPT ![t] = row]
               /\ last' = Response("task_complete", "ok")
          ELSE /\ UNCHANGED tasks
               /\ last' = Response("task_complete", "validation_error")
  /\ UNCHANGED <<deals, history, today, workers, transitions, shown>>

\* POST /tasks/<id>/reassign/: assigned_to is not a column kept here, the
\* loaded row is saved
TaskReassign(t) ==
  /\ IF ~TaskFound(t, tasks)
     THEN /\ UNCHANGED tasks
          /\ last' = Response("task_reassign", "not_found")
     ELSE LET row == TaskSaveDates(tasks[t], today) IN
          IF TaskFullClean(row, today)
          THEN /\ tasks' = [tasks EXCEPT ![t] = row]
               /\ last' = Response("task_reassign", "ok")
          ELSE /\ UNCHANGED tasks
               /\ last' = Response("task_reassign", "validation_error")
  /\ UNCHANGED <<deals, history, today, workers, transitions, shown>>

\* soft_delete -> Task.save(update_fields=...) -> full_clean of the row in
\* memory, with is_active and deleted_at already set
TaskSoftDeleteClean(row, now) ==
  TaskFullClean(TaskSaveDates(SoftDelete(row, now), now), now)

\* DELETE /tasks/<id>/: only is_active and deleted_at are written
TaskDestroy(t) ==
  /\ IF ~TaskFound(t, tasks)
     THEN /\ UNCHANGED tasks
          /\ last' = Response("task_destroy", "not_found")
     ELSE IF TaskSoftDeleteClean(tasks[t], today)
     THEN /\ tasks' = [tasks EXCEPT ![t] = SoftDelete(tasks[t], today)]
          /\ last' = Response("task_destroy", "ok")
     ELSE /\ UNCHANGED tasks
          /\ last' = Response("task_destroy", "validation_error")
  /\ UNCHANGED <<deals, history, today, workers, transitions, shown>>

\* TaskAdmin.mark_completed: queryset.update on the selected rows
AdminMarkCompleted(selected) ==
  /\ selected \subseteq 1..Len(tasks)
  /\ selected # {}
  /\ tasks' = [t \in 1..Len(tasks) |->
                 IF t \in selected THEN Completed(tasks[t], today)
                 ELSE tasks[t]]
  /\ last' = Response("mark_completed", "ok")
  /\ UNCHANGED <<deals, history, today, workers, transitions, shown>>

NextTasks ==
  \/ \E data \in TaskData : Counted /\ TaskCreate(data)
  \/ \E t \in 1..MaxTasks, data \in TaskData : Counted /\ TaskUpdate(t, data)
  \/ \E t \in 1..MaxTasks : Counted /\ TaskComplete(t)
  \/ \E t \in 1..MaxTasks : Counted /\ TaskReassign(t)
  \/ \E t \in 1..MaxTasks : Counted /\ TaskDestroy(t)
  \/ \E selected \in SUBSET (1..MaxTasks) :
       Counted /\ AdminMarkCompleted(selected)
  \/ Counted /\ Tick

SpecTasks == Init /\ [][NextTasks]_vars

(* ------------------- the derived days in stage ------------------------ *)
\* the modules of the package tasks
PackageModules == {"admin", "models", "serializers", "views"}

\* the outcomes of reading a property
Returned(value) == [raised |-> "", value |-> value]
Raised(exception) == [raised |-> exception, value |-> 0]

\* DealStageHistory.objects.filter(deal=d).order_by('-changed_at').first()
LatestRecord(d, rows) ==
  CHOOSE i \in {j \in 1..Len(rows) : rows[j].deal = d} :
    \A k \in 1..Len(rows) :
      rows[k].deal = d => rows[k].changed_at <= rows[i].changed_at

\* Deal.days_in_stage, read for deal d on day now
days_in_stage(d, rows, now) ==
  IF "deal_stage_history" \notin PackageModules
  THEN Raised("ModuleNotFoundError")
  ELSE IF \E j \in 1..Len(rows) : rows[j].deal = d
  THEN LET days == now - rows[LatestRecord(d, rows)].changed_at
       IN Returned(IF days < 0 THEN 0 ELSE days)
  ELSE Returned(0)

(* ------------- specification: the derived weighted amount ------------- *)
RECURSIVE Pow10(_)
Pow10(n) == IF n = 0 THEN 1 ELSE 10 * Pow10(n - 1)

RECURSIVE Log10(_)
\* the number of zeros of a power of ten
Log10(n) == IF n = 1 THEN 0 ELSE 1 + Log10(n \div 10)

\* Decimal * int
DecTimes(d, n) == Dec(d.coef * n, d.scale)

\* Decimal / int, for a divisor that is a power of ten (exact)
DecOver(d, n) == Dec(d.coef, d.scale + Log10(n))

\* a product in which the percentage is divided first, as integers
weighted_amount_floor(amount, probability) ==
  DecTimes(amount, probability \div 100)

\* Deal.weighted_amount: (self.amount * self.probability) / 100
weighted_amount(amount, probability) ==
  DecOver(DecTimes(amount, probability), 100)

\* amounts of stored deals (decimal_places=2, MinValueValidator(0)), in cents
Amounts == (0..MaxCents) \cup {100000}

\* probabilities of stored deals (validators 0..100)
Probabilities == 0..100

InitWeighted ==
  /\ deals = <<>>
  /\ history = <<>>
  /\ today = 1
  /\ workers = [p \in Procs |-> Idle]
  /\ last = NoResponse
  /\ transitions = [d \in 1..MaxDeals |-> 0]
  /\ begun = 0
  /\ tasks = <<>>
  /\ \E amount \in Amounts, probability \in Probabilities :
       shown = [amount |-> Dec(amount, 2), probability |-> probability,
                weighted_amount |-> NotComputed]

\* DealSerializer reads the property of the instance
ShowWeightedAmount ==
  /\ shown # NothingShown
  /\ shown.weighted_amount = NotComputed
  /\ shown' = [shown EXCEPT !.weighted_amount =
                 weighted_amount(shown.amount, shown.probability)]
  /\ UNCHANGED <<deals, history, today, workers, last, transitions, begun,
                 tasks>>

NextWeighted == ShowWeightedAmount

SpecWeighted == InitWeighted /\ [][NextWeighted]_vars

(* ------- specification: transitions and the admin console ------------- *)
\* the editable fields of the DealStageHistory change form, as submitted
HistoryData == { [to_stage |-> "on_hold"], [notes |-> "edited"] }

\* DealStageHistoryAdmin change view: the form is saved over row i
AdminChangeHistory(i, data) ==
  /\ i \in 1..Len(history)
  /\ history' = [history EXCEPT ![i] = Apply(history[i], data)]
  /\ UNCHANGED <<deals, today, workers, last, transitions, tasks, shown>>

\* DealStageHistoryAdmin delete view (or the delete_selected action)
AdminDeleteHistory(i) ==
  /\ i \in 1..Len(history)
  /\ history' = SubSeq(history, 1, i - 1)
                   \o SubSeq(history, i + 1, Len(history))
  /\ UNCHANGED <<deals, today, workers, last, transitions, tasks, shown>>

NextAdmin ==
  \/ \E p \in Procs : Counted /\ Dispatch(p) /\ Create(p, MaxDeals)
  \/ \E p \in Procs : CreateClean(p)
  \/ \E p \in Procs : CreateInsert(p)
  \/ \E p \in Procs : Counted /\ Dispatch(p) /\ ChangeStage(p)
  \/ \E p \in Procs : ChangeStageHistory(p)
  \/ \E p \in Procs : ChangeStageSave(p)
  \/ \E i \in 1..MaxEvents, data \in HistoryData :
       Counted /\ AdminChangeHistory(i, data)
  \/ \E i \in 1..MaxEvents : Counted /\ AdminDeleteHistory(i)
  \/ Counted /\ Tick

SpecAdmin == Init /\ [][NextAdmin]_vars

(* ======================= properties of the code ======================= *)

\* a worker is between the history INSERT and the save of a change_stage
InTransition(p) == workers[p].pc \in {"cs_history", "cs_save"}

\* the history rows of deal d, as indices into history
RecordsOf(d) == {i \in 1..Len(history) : history[i].deal = d}

\* the history rows written by worker p since its request began
WrittenBy(p, h) ==
  {i \in (workers[p].h0 + 1)..Len(h) : h[i].changed_by = p}

\* the probability bands of the stages (inclusive)
BandTable ==
  [lead |-> <<0, 30>>, qualified |-> <<30, 50>>, proposal |-> <<50, 70>>,
   negotiation |-> <<70, 90>>, closed_won |-> <<95, 100>>,
   closed_lost |-> <<0, 5>>, on_hold |-> <<0, 100>>]

\* C1: in every reachable state the probability of every stored deal lies
\* within the inclusive band of the deal's stage.
C1_BandInvariant ==
  \A i \in 1..Len(deals) :
    /\ BandTable[deals[i].stage][1] <= deals[i].probability
    /\ deals[i].probability <= BandTable[deals[i].stage][2]

\* a change_stage request has succeeded and left a deal in negotiation at 80
C1_Witness ==
  /\ last = Response("change_stage", "ok")
  /\ \E i \in 1..Len(deals) :
       deals[i].stage = "negotiation" /\ deals[i].probability = 80

\* C2: a change_stage request for a deal loaded in closed_won or closed_lost
\* changes neither the deals nor the history in any of its steps, and does
\* not end with a success response.
C2_TerminalInvariant ==
  [][\A p \in Procs :
       (/\ InTransition(p)
        /\ workers[p].from_stage \in TERMINAL_STAGES
        /\ workers'[p] # workers[p])
       => /\ deals' = deals
          /\ history' = history
          /\ (workers'[p].pc = "idle" => last'.status # "ok")]_vars

\* C3: when a change_stage request ends with an error, the deals are as they
\* were and the history holds no row written by that request.
C3_AtomicTransition ==
  [][\A p \in Procs :
       (/\ workers[p].pc = "cs_save"
        /\ workers'[p].pc = "idle"
        /\ last'.status # "ok")
       => /\ deals' = deals
          /\ WrittenBy(p, history') = {}]_vars

\* C4: whenever no change_stage request is in flight, every deal has as many
\* history rows as change_stage requests that succeeded on it.
C4_AuditCompleteness ==
  (\A p \in Procs : ~InTransition(p))
    => \A d \in 1..Len(deals) : Cardinality(RecordsOf(d)) = transitions[d]

\* C5: two creations in flight at the same time never hold the same
\* allocated deal_code.
C5_DistinctAllocations ==
  \A p \in Creating, q \in Creating :
    p # q => workers[p].deal.deal_code # workers[q].deal.deal_code

\* C6: no two stored deals have the same deal_code.
C6_UniqueCodes ==
  \A i \in 1..Len(deals), j \in 1..Len(deals) :
    i # j => deals[i].deal_code # deals[j].deal_code

\* two deals are stored and a racing creation has just been refused on INSERT
C6_Witness ==
  /\ Len(deals) >= 2
  /\ last = Response("create", "integrity_error")

\* j is the history row of the same deal that follows row i
NextRecord(i, j) ==
  /\ i < j
  /\ history[i].deal = history[j].deal
  /\ \A k \in (i + 1)..(j - 1) : history[k].deal # history[i].deal

\* C7: once all change_stage requests have completed, each with success, the
\* history of a deal is a chain (every row starts from the stage the row
\* before it led to) and the deal is in the stage its latest row led to.
C7_SerializedTransitions ==
  (/\ \A p \in Procs : ~InTransition(p)
   /\ \A d \in 1..Len(deals) : Cardinality(RecordsOf(d)) = transitions[d])
    => \A i \in 1..Len(history), j \in 1..Len(history) :
         NextRecord(i, j) => history[j].from_stage = history[i].to_stage

\* C8: a change_stage request to closed_lost without a lost_reason ends with
\* a validation error, leaves the deals as they were and leaves no history
\* row of its own.
C8_LostReasonRequired ==
  [][\A p \in Procs :
       (/\ workers[p].pc = "cs_save"
        /\ workers[p].stage = "closed_lost"
        /\ workers[p].lost_reason = ""
        /\ workers'[p].pc = "idle")
       => /\ last' = Response("change_stage", "validation_error")
          /\ deals' = deals
          /\ WrittenBy(p, history') = {}]_vars

\* the year and the sequence number written in a stored code
CodeYear(code) == ParseInt(SubSeq(code, 6, 9))
CodeSuffix(code) == ParseInt(LastField(code))

\* a creation by worker p has just been given its code
Allocates(p) == workers[p].pc = "idle" /\ workers'[p].pc = "create_clean"

\* C9: when no stored code is of the current year, the code allocated to a
\* new deal is DEAL-<year>-001.
C9_PerYearReset ==
  [][\A p \in Procs :
       (/\ Allocates(p)
        /\ \A i \in 1..Len(deals) : CodeYear(deals[i].deal_code) # YearOf(today))
       => workers'[p].deal.deal_code
            = CodePrefix \o DecimalDigits(YearOf(today)) \o <<45, 48, 48, 49>>]_vars

RECURSIVE MaxSuffixIn(_, _, _)
\* the largest sequence number among rows lo..hi, 0 if there is none
MaxSuffixIn(rows, lo, hi) ==
  IF lo > hi THEN 0
  ELSE IF lo = hi THEN CodeSuffix(rows[lo].deal_code)
  ELSE LET mid == (lo + hi) \div 2
           a == MaxSuffixIn(rows, lo, mid)
           b == MaxSuffixIn(rows, mid + 1, hi)
       IN IF a < b THEN b ELSE a

\* C10: when every stored code is of the current year and no other creation
\* is in flight, the code allocated to a new deal carries the largest stored
\* sequence number plus one (1 on an empty table), padded to three digits.
C10_SequentialCodes ==
  [][\A p \in Procs :
       (/\ Allocates(p)
        /\ Creating = {}
        /\ \A i \in 1..Len(deals) : CodeYear(deals[i].deal_code) = YearOf(today))
       => workers'[p].deal.deal_code
            = CodePrefix \o DecimalDigits(YearOf(today)) \o <<45>>
                \o ZeroPad(DecimalDigits(MaxSuffixIn(deals, 1, Len(deals)) + 1), 3)]_vars

\* a change_stage request of worker p ends with success
Succeeds(p) ==
  /\ workers[p].pc = "cs_save"
  /\ workers'[p].pc = "idle"
  /\ last' = Response("change_stage", "ok")

\* C11: a successful change_stage request leaves the deal with the default
\* probability of the target stage, unless its body carries a probability
\* inside the band of the target stage, which the deal then keeps.
C11_ProbabilityOnTransition ==
  [][\A p \in Procs :
       Succeeds(p) =>
         LET w == workers[p]
             given == /\ w.probability # Absent
                      /\ BandTable[w.stage][1] <= w.probability
                      /\ w.probability <= BandTable[w.stage][2]
         IN deals'[w.id].probability
              = IF given THEN w.probability
                ELSE stage_default_probability[w.stage]]_vars

\* the day on which the change_stage request of worker p was applied: the
\* changed_at of the history row it wrote
AppliedOn(p) ==
  history[CHOOSE i \in WrittenBy(p, history) : TRUE].changed_at

\* C12: a successful change_stage to closed_won or closed_lost stores the
\* day of the request as actual_close_date; to closed_lost it also stores
\* the lost_reason and lost_notes of the request and probability 0; to any
\* other stage it leaves the stored actual_close_date, lost_reason and
\* lost_notes as they are.
C12_ClosingEffects ==
  [][\A p \in Procs :
       Succeeds(p) =>
         LET w == workers[p]
             old == deals[w.id]
             new == deals'[w.id]
         IN /\ w.stage \in TERMINAL_STAGES
                 => new.actual_close_date = AppliedOn(p)
            /\ w.stage = "closed_lost"
                 => /\ new.lost_reason = w.lost_reason
                    /\ new.lost_notes = w.lost_notes
                    /\ new.probability = 0
            /\ w.stage \notin TERMINAL_STAGES
                 => /\ new.actual_close_date = old.actual_close_date
                    /\ new.lost_reason = old.lost_reason
                    /\ new.lost_notes = old.lost_notes]_vars

\* C13: every stored deal that has both dates has an actual_close_date that
\* is not earlier than its expected_close_date (a creation or an update that
\* would store an earlier one is refused).
C13_CloseDateOrdering ==
  \A i \in 1..Len(deals) :
    (deals[i].actual_close_date # None /\ deals[i].expected_close_date # None)
      => deals[i].actual_close_date >= deals[i].expected_close_date

\* an update that would put actual_close_date before expected_close_date has
\* been refused, and a stored deal has an expected_close_date
C13_Witness ==
  /\ last = Response("update", "validation_error")
  /\ \E i \in 1..Len(deals) : deals[i].expected_close_date # None

\* the change_stage request of worker p, loaded on a deal in a non-terminal
\* stage and carrying a lost_reason of the enumeration when it asks for
\* closed_lost, returns
ReturnsFromOpenStage(p) ==
  /\ workers[p].pc = "cs_save"
  /\ workers'[p].pc = "idle"
  /\ workers[p].from_stage \notin TERMINAL_STAGES
  /\ workers[p].stage = "closed_lost"
       => workers[p].lost_reason \in LOST_REASON_CHOICES

\* C14 (as stated): from every non-terminal stage a change_stage request to
\* any stage of the enumeration succeeds and leaves the deal in that stage.
C14_StageReachability ==
  [][\A p \in Procs :
       ReturnsFromOpenStage(p)
         => /\ last' = Response("change_stage", "ok")
            /\ deals'[workers[p].id].stage = workers[p].stage]_vars

\* C14 (amended): the same, provided that a request for closed_won or
\* closed_lost is made on a deal whose expected_close_date is unset or not
\* later than the day of the request.
C14_StageReachabilityDated ==
  [][\A p \in Procs :
       (/\ ReturnsFromOpenStage(p)
        /\ workers[p].stage \in TERMINAL_STAGES
             => \/ workers[p].deal.expected_close_date = None
                \/ workers[p].deal.expected_close_date <= AppliedOn(p))
         => /\ last' = Response("change_stage", "ok")
            /\ deals'[workers[p].id].stage = workers[p].stage]_vars

\* a deal has gone from lead straight to closed_won
C14_Witness ==
  /\ last = Response("change_stage", "ok")
  /\ \E i \in 1..Len(history) :
       /\ history[i].from_stage = "lead"
       /\ history[i].to_stage = "closed_won"
       /\ deals[history[i].deal].stage = "closed_won"

\* C15: no step removes a history row or changes the deal, from_stage,
\* to_stage, changed_by, notes or changed_at of a row that exists.
C15_HistoryAppendOnly ==
  [][/\ Len(history') >= Len(history)
     /\ \A i \in 1..Len(history) : history'[i] = history[i]]_vars

\* C16: no step changes the deal_code of a stored deal.
C16_DealCodeImmutable ==
  [][\A i \in 1..Len(deals) : deals'[i].deal_code = deals[i].deal_code]_vars

\* a deal has gone through a transition and a soft delete
C16_Witness ==
  \E i \in 1..Len(deals) :
    /\ transitions[i] >= 1
    /\ ~deals[i].is_active
    /\ deals[i].deal_code # <<>>

\* the creation of worker p ends with an error
LosesCreation(p) ==
  /\ workers[p].pc \in {"create_clean", "create_insert"}
  /\ workers'[p].pc = "idle"
  /\ last'.status # "ok"

\* a creation is begun by worker p right after a creation was refused for a
\* duplicate code, while no other creation is in flight
RetriesCreation(p) ==
  /\ Allocates(p)
  /\ Creating = {}
  /\ last.op = "create"
  /\ last.status \in {"validation_error", "integrity_error"}

\* C17: a creation that ends with an error stores no deal, and the creation
\* retried after a lost race is given a code that no stored deal has.
C17_RetryableConflict ==
  [][\A p \in Procs :
       /\ LosesCreation(p) => deals' = deals
       /\ RetriesCreation(p)
            => \A i \in 1..Len(deals) :
                 deals[i].deal_code # workers'[p].deal.deal_code]_vars

\* worker p passes the checks of change_stage and goes on to write
Proceeds(p) == workers[p].pc = "idle" /\ workers'[p].pc = "cs_history"

\* a request is answered at once with the given response
Answers(response) ==
  /\ begun' # begun
  /\ workers' = workers
  /\ today' = today
  /\ last' = response

\* C18: a change_stage request goes on to write only with a stage of the
\* enumeration; the step that refuses a stage changes no deal and no
\* history row.
C18_InvalidStageRejected ==
  [][/\ \A p \in Procs : Proceeds(p) => workers'[p].stage \in STAGE_CHOICES
     /\ Answers(Response("change_stage", "bad_request"))
          => deals' = deals /\ history' = history]_vars

\* a stage has been refused for an active deal that has a history
C18_Witness ==
  /\ last = Response("change_stage", "bad_request")
  /\ \E i \in 1..Len(deals) : deals[i].is_active /\ RecordsOf(i) # {}

\* C19: a change_stage request goes on to write only for a deal that is
\* stored and active; the step that answers not-found changes no deal and
\* no history row.
C19_NotFoundForInactive ==
  [][/\ \A p \in Procs :
          Proceeds(p) => /\ workers'[p].id \in 1..Len(deals)
                         /\ deals[workers'[p].id].is_active
     /\ Answers(Response("change_stage", "not_found"))
          => deals' = deals /\ history' = history]_vars

\* a transition has been refused while the only stored deal is soft-deleted
C19_Witness ==
  /\ last = Response("change_stage", "not_found")
  /\ Len(deals) = 1
  /\ ~deals[1].is_active

\* a destroy or bulk delete request is answered
Deletes ==
  /\ begun' # begun
  /\ workers' = workers
  /\ today' = today
  /\ last'.op \in {"destroy", "bulk_delete"}

\* what a soft delete may not touch
Kept(row) ==
  [f \in DOMAIN row \ {"is_active", "deleted_at"} |-> row[f]]

\* C20: no step removes a stored deal; a destroy or a bulk delete keeps every
\* row with its stage, probability and deal_code, changes only is_active (to
\* FALSE) and deleted_at, and leaves the history as it is.
C20_SoftDeleteOnly ==
  [][/\ Len(deals') >= Len(deals)
     /\ Deletes
          => /\ history' = history
             /\ Len(deals') = Len(deals)
             /\ \A i \in 1..Len(deals) :
                  /\ Kept(deals'[i]) = Kept(deals[i])
                  /\ deals'[i] # deals[i] => ~deals'[i].is_active]_vars

\* a bulk delete has soft-deleted a deal that has a history
C20_Witness ==
  /\ last = Response("bulk_delete", "ok")
  /\ \E i \in 1..Len(deals) : ~deals[i].is_active /\ RecordsOf(i) # {}

\* the creation of worker p stores its deal
StoresDeal(p) ==
  /\ workers[p].pc = "create_insert"
  /\ Len(deals') = Len(deals) + 1

\* C21: a deal that has just been stored by a creation is in stage lead with
\* probability 0 and has a code that no deal stored before it has.
C21_NewDealDefaults ==
  [][\A p \in Procs :
       StoresDeal(p)
         => LET new == deals'[Len(deals')]
            IN /\ new.stage = "lead"
               /\ new.probability = 0
               /\ new.deal_code # <<>>
               /\ \A i \in 1..Len(deals) :
                    deals[i].deal_code # new.deal_code]_vars

\* the value of a Decimal in units of 10^-s
Scaled(d, s) == d.coef * Pow10(s - d.scale)

\* C22: the weighted_amount read for a deal equals amount * probability /
\* 100 (600 for amount 1000.00 and probability 60) and lies between 0 and
\* the amount.
C22_WeightedAmount ==
  (shown # NothingShown /\ shown.weighted_amount # NotComputed)
    => LET w == Scaled(shown.weighted_amount, 4)
           a == Scaled(shown.amount, 4)
       IN /\ w * 100 = a * shown.probability
          /\ 0 <= w /\ w <= a
          /\ (shown.amount = Dec(100000, 2) /\ shown.probability = 60)
               => w = 600 * Pow10(4)

\* the weighted amount of 1000.00 at 60 has been read
C22_Witness ==
  /\ shown.amount = Dec(100000, 2)
  /\ shown.probability = 60
  /\ shown.weighted_amount # NotComputed

\* C23: a creation that begins while no other creation is in flight is never
\* given a code that a stored deal has, also after suffix 999 has been used.
C23_SequenceOverflow ==
  [][\A p \in Procs :
       (Allocates(p) /\ Creating = {})
         => \A i \in 1..Len(deals) :
              deals[i].deal_code # workers'[p].deal.deal_code]_vars

\* an update request is answered
Updates ==
  /\ begun' # begun
  /\ workers' = workers
  /\ today' = today
  /\ last'.op = "update"

\* C24: an update request changes a deal only to a row whose probability is
\* inside the band of its stage, is answered with success only if it leaves
\* such a row, and leaves the history as it is.
C24_DirectUpdate ==
  [][Updates
       => /\ history' = history
          /\ \A i \in 1..Len(deals) :
               (deals'[i] # deals[i] \/ last'.status = "ok")
                 => /\ BandTable[deals'[i].stage][1] <= deals'[i].probability
                    /\ deals'[i].probability <= BandTable[deals'[i].stage][2]
          /\ last'.status # "ok" => deals' = deals]_vars

\* an update has moved a deal to closed_won and the deal has no history
C24_Witness ==
  /\ last = Response("update", "ok")
  /\ \E i \in 1..Len(deals) :
       deals[i].stage = "closed_won" /\ RecordsOf(i) = {}

\* C25: a stored deal with a lost_reason or lost_notes is in closed_lost.
C25_LostFieldsOnlyWhenLost ==
  \A i \in 1..Len(deals) :
    (deals[i].lost_reason # "" \/ deals[i].lost_notes # "")
      => deals[i].stage = "closed_lost"

\* C26: days_in_stage of a stored deal is 0 when the deal has no history
\* row, otherwise the number of days from the changed_at of its most recent
\* row to today, and never negative.
C26_DaysInStage ==
  \A d \in 1..Len(deals) :
    LET r == days_in_stage(d, history, today)
    IN /\ r.raised = ""
       /\ r.value >= 0
       /\ RecordsOf(d) = {} => r.value = 0
       /\ RecordsOf(d) # {}
            => \E i \in RecordsOf(d) :
                 /\ \A k \in RecordsOf(d) : k <= i
                 /\ r.value = today - history[i].changed_at

\* C27: whenever no change_stage request is in flight, the most recent
\* history row of a deal leads to the stage the deal is in, and every row of
\* the deal starts from the stage the row before it led to.
C27_HistoryAgreesWithDeal ==
  (\A p \in Procs : ~InTransition(p))
    => /\ \A i \in 1..Len(history) :
            (\A k \in RecordsOf(history[i].deal) : k <= i)
              => history[i].to_stage = deals[history[i].deal].stage
       /\ \A i \in 1..Len(history), j \in 1..Len(history) :
            NextRecord(i, j) => history[j].from_stage = history[i].to_stage

\* C28: every stored task has a completed_date exactly when its status is
\* completed.
C28_TaskCompletion ==
  \A t \in 1..Len(tasks) :
    tasks[t].completed_date # None <=> tasks[t].status = "completed"

\* a task created on the first day has been completed on a later day
C28_Witness ==
  /\ last = Response("task_complete", "ok")
  /\ \E t \in 1..Len(tasks) :
       /\ tasks[t].status = "completed"
       /\ tasks[t].completed_date = today
       /\ today > 1

\* a destroy request for a stored active task is answered
DestroysTask ==
  /\ begun' # begun
  /\ today' = today
  /\ last'.op = "task_destroy"
  /\ last'.status # "not_found"

\* C29: a soft delete of an active task succeeds and leaves a task inactive
\* with deleted_at set, whatever its due_date and the day.
C29_SoftDeleteSucceeds ==
  [][DestroysTask
       => /\ last'.status = "ok"
          /\ \E t \in 1..Len(tasks) :
               /\ tasks[t].is_active
               /\ ~tasks'[t].is_active
               /\ tasks'[t].deleted_at # None]_vars

RECURSIVE Ancestors(_, _, _)
\* the tasks reached from t by at most n parent_task links
Ancestors(t, rows, n) ==
  IF n = 0 \/ rows[t].parent_task = None THEN {}
  ELSE {rows[t].parent_task} \cup Ancestors(rows[t].parent_task, rows, n - 1)

\* C30: no stored task is its own parent or ancestor.
C30_ParentAcyclic ==
  \A t \in 1..Len(tasks) : t \notin Ancestors(t, tasks, Len(tasks))

====
